---- MODULE Spec2Model ----
(***************************************************************************)
(* Model of the RehmaHealthOS state store (src/main.js): the cycle event   *)
(* log, the cycle statistics, the phase resolver and persistence.          *)
(*                                                                         *)
(* Calendar dates 'YYYY-MM-DD' are modelled as day numbers (integers):     *)
(* string comparison of ISO dates is chronological comparison, and         *)
(* new Date('YYYY-MM-DD') is UTC midnight of that day, so differences of   *)
(* two such Dates divided by 86400000 are exact day differences.           *)
(***************************************************************************)
EXTENDS Integers, Sequences, FiniteSets, TLC

(***************************************************************************)
(* Weights are in tenths of a kilogram, nutrition values in tenths of a    *)
(* unit.  A JavaScript value that reaches the store from outside is a      *)
(* record [kind, prefix, whole]: kind is "number", "string" (a non-empty   *)
(* string), "empty" (the string '') or "undefined"; prefix is <<n>> when   *)
(* the value is the number n or a string that begins with the number n,    *)
(* and <<>> when no number can be read from its beginning; whole says that *)
(* the value is a number or a string that is a number and nothing else.    *)
(* A numeric value held by the store is a record [t, v]: t is "num",       *)
(* "NaN" or "null".                                                        *)
(***************************************************************************)

\* Values of the store and values handed to it.
Num(n) == [t |-> "num", v |-> n]
NaN == [t |-> "NaN", v |-> 0]
Null == [t |-> "null", v |-> 0]

Number(n) == [kind |-> "number", prefix |-> <<n>>, whole |-> TRUE]
NumericString(n) == [kind |-> "string", prefix |-> <<n>>, whole |-> TRUE]
TrailingText(n) == [kind |-> "string", prefix |-> <<n>>, whole |-> FALSE]
Text == [kind |-> "string", prefix |-> <<>>, whole |-> FALSE]
EmptyString == [kind |-> "empty", prefix |-> <<>>, whole |-> FALSE]
Undefined == [kind |-> "undefined", prefix |-> <<>>, whole |-> FALSE]

\* ---------------------------------------------------------------- bounds
\* Dates the user interface hands to logPeriodStart / logPeriodEnd.
Dates == {0, 3, 8, 28}

\* Dates handed to logPeriodStart / logPeriodEnd under SpecStats.
StatsDates == {0, 15, 31, 50}

\* Dates handed to logPeriodStart / logPeriodEnd under SpecRange: they lie 1,
\* 16, 17, 33, 49 and 50 days apart.
RangeDates == {0, 1, 17, 50}

\* Dates handed to logPeriodStart and to logPeriodEnd of the two store
\* instances under SpecTwin.
TwinStartDates == {0, 15, 28}
TwinEndDates == {5}

\* The event log is capped at this many events.
MaxEvents == 4

\* Day on which the host's local clock springs forward, for a host time zone
\* that observes daylight saving time.
SpringDay == 3

\* The calendar date on which the store instance is constructed.
Today == 20

\* Dates handed to the calls under SpecStore.
StoreCycleDates == {0}
StoreDates == {Today}

\* Each date's nutrition list and workout list is capped at this many entries.
MaxEntries == 1

\* Under the other specifications addWater is called at most this many times,
\* with one glass (250 ml) each.
MaxGlasses == 1
Glass == 250

\* new RehmaFitnessTracker(): the cycle lengths the tracker starts with, and
\* a last period start 25 days before the construction.
FreshTracker ==
    [cycleHistory |-> <<28, 31, 26, 29, 33, 27, 30>>, lastPeriodStart |-> Today - 25]

\* Last period starts of stored tracker data, and the dates handed to
\* calculateCycleDay: those at most MaxSpan days before or after Today.
StoredStarts == {Today - 25, Today - 3}
MaxSpan == 40
CycleDayDates == (Today - MaxSpan)..(Today + MaxSpan)

\* The page before a StepCounter is constructed (src/unnamed/part_001), on a
\* device whose DeviceMotionEvent has no requestPermission.  The fields:
\*   steps, simulatedSteps, isActive   the fields of the instance;
\*   stored          localStorage['rehmaStepCounter']: <<>> or <<[steps, simulatedSteps]>>;
\*   lastStepReset   localStorage['lastStepReset']: <<>> or <<day>>;
\*   day             the local calendar day (toDateString), counted from 0;
\*   hidden          document.hidden, as reported by visibilitychange;
\*   pending         requestPermission() promises that are not settled yet;
\*   requestable     typeof DeviceMotionEvent.requestPermission === 'function';
\*   clickArmed      the once-only click listener is still registered;
\*   built           a StepCounter has been constructed on this page;
\*   counted         history: the steps counted since resetDailySteps last reset.
\* dailyGoal never changes and the milestone flags need 1000 steps: neither
\* is part of the record.
NoCounter ==
    [steps |-> 0, simulatedSteps |-> 0, isActive |-> FALSE, stored |-> <<>>,
     lastStepReset |-> <<>>, day |-> 0, hidden |-> FALSE, pending |-> 0,
     requestable |-> FALSE, clickArmed |-> FALSE, built |-> FALSE, counted |-> 0]

\* Under SpecSteps at most MaxSteps steps are counted between two resets and
\* at most MaxDay midnights pass.
MaxSteps == 2
MaxDay == 1

\* event.accelerationIncludingGravity of a devicemotion event: missing, or its
\* magnitude; and the time since the last counted step, in milliseconds.
Accelerations == {<<>>, <<9>>, <<12>>}
ElapsedTimes == {100, 400}

\* No query has returned yet.
NoValue == [kind |-> "none"]

\* Values handed to setWeight: 70 kg, 15 kg, 0, 'abc', '70kg'.
WeightInputs == {Number(700), Number(150), Number(0), Text, TrailingText(700)}

\* Foods handed to logFood: one with numeric fields and no fiber, one of the
\* same name in lower case with fields that are not numbers.
FoodInputs ==
    {[name |-> "Chai", cals |-> Number(1200), p |-> NumericString(30),
      c |-> Number(200), f |-> Number(40), fiber |-> Undefined],
     [name |-> "chai", cals |-> EmptyString, p |-> Text,
      c |-> Number(150), f |-> Number(0), fiber |-> Number(10)]}

WorkoutInputs == {[type |-> "yoga", burn |-> Number(120)]}

\* Dates and foods handed to the calls under SpecDaily: a third food of
\* another name.
DailyDates == {0, Today}

DailyFoodInputs ==
    FoodInputs \cup
    {[name |-> "Dal", cals |-> Number(3000), p |-> Number(180),
      c |-> Number(400), f |-> Number(50), fiber |-> Number(80)]}

\* The store holds at most this many nutrition and workout entries in all,
\* and addWater is called at most MaxDailyGlasses times.
MaxDailyEntries == 3
MaxDailyGlasses == 2

\* Under SpecClock the clock is read up to MaxClock milliseconds after the
\* construction, and a date's nutrition list holds at most MaxFoods entries.
MaxClock == 1
MaxFoods == 2

\* Under SpecMidnight the page stays open over at most MaxNights midnights.
MaxNights == 1

\* Phase queries range over the days 0..MaxQueryDate.
MaxQueryDate == 60

\* Cycle lengths of a stored cycle history, and its greatest length.
CycleLengths == {15, 28, 45}
MaxHistory == 4

\* ------------------------------------------------------------- constants
PredictDefault == 28
MinHistory == 3
PredictMin == 21
PredictMax == 35
MsPerDay == 86400000
DefaultAvgLength == 29
stepThreshold == 10
stepCooldown == 300
SynthDuration == 5
OpenCap == 7
MinCycle == 15
MaxCycle == 50
MinEventsForStats == 3
MenstrualLast == 5
FollicularLast == 13
OvulationLast == 17

VARIABLES
    events,     \* state.cycle.events: sequence of [date, type]
    avgLength,  \* state.cycle.avgLength
    persisted,  \* localStorage[STORAGE_KEY]: <<>> or <<serialized state>>
    emitted,    \* number of 'rehma_update' events dispatched by the last call
    alerted,    \* whether the last call raised the "Local Storage is full" alert
    dstDays,    \* days on which the host's local time zone springs forward
    lastOp,     \* the last call made on the store: [op, date]
    twin,       \* state.cycle of a second store instance on the same host
    profile,    \* state.profile: [weight, bodyFat, activityLevel, goals]
    logs,       \* state.logs: [nutrition, workouts, weight, water], maps by date
    library,    \* state.library: sequence of foods
    runtime,    \* this.runtime: [today, tdee]
    pc,         \* "boot" while the constructor has not run, then "ready" or "crashed",
                \* "online" or "silent" once the SYSTEM_READY timer has fired
    now,        \* Date.now(), in clock ticks
    sent,       \* payloads of the 'rehma_update' events dispatched by the last call
    tracker,    \* the RehmaFitnessTracker instance: [cycleHistory, lastPeriodStart]
    returned,   \* what the last query returned
    counter     \* the StepCounter instance, its localStorage items and its page

cycleVars == <<events, avgLength, persisted, emitted, alerted, dstDays, lastOp, sent>>
dailyVars == <<profile, logs, library, runtime, pc, now, tracker, returned, counter>>
vars == <<events, avgLength, persisted, emitted, alerted, dstDays, lastOp, twin,
          profile, logs, library, runtime, pc, now, sent, tracker, returned, counter>>

Start(d) == [date |-> d, type |-> "start"]
End(d) == [date |-> d, type |-> "end"]

\* parseFloat(x): the number at the beginning of x, NaN when there is none.
parseFloat(x) == IF x.prefix = <<>> THEN NaN ELSE Num(x.prefix[1])

\* parseInt(x): as parseFloat, cut to a whole number (values are in tenths).
parseInt(x) ==
    IF x.prefix = <<>> THEN NaN
    ELSE Num(IF x.prefix[1] >= 0 THEN (x.prefix[1] \div 10) * 10
             ELSE -(((-x.prefix[1]) \div 10) * 10))

\* Whether x is falsy: undefined, '', or the number 0.
falsy(x) == x.kind \in {"undefined", "empty"} \/ x = Number(0)

\* JSON.stringify followed by JSON.parse of a numeric value of the store:
\* NaN is written as null.
jsonNumber(x) == IF x.t = "NaN" THEN Null ELSE x

\* JSON.stringify followed by JSON.parse of a nutrition entry.
jsonEntry(e) ==
    [id |-> e.id, name |-> e.name, cals |-> jsonNumber(e.cals),
     p |-> jsonNumber(e.p), c |-> jsonNumber(e.c), f |-> jsonNumber(e.f),
     fiber |-> jsonNumber(e.fiber)]

jsonNutrition(n) ==
    [d \in DOMAIN n |-> [i \in 1..Len(n[d]) |-> jsonEntry(n[d][i])]]

\* JSON.parse(JSON.stringify(state)) for a state with the given parts: what
\* loadState reads back from the record that save writes.
SerializedStateNoLibrary(ev, avg, prof, lg, lib) ==
    [events |-> ev, avgLength |-> avg, profile |-> prof,
     logs |-> [lg EXCEPT !.nutrition = jsonNutrition(lg.nutrition)],
     library |-> <<>>]

SerializedState(ev, avg, prof, lg, lib) ==
    [events |-> ev, avgLength |-> avg, profile |-> prof,
     logs |-> [lg EXCEPT !.nutrition = jsonNutrition(lg.nutrition)],
     library |-> lib]

\* The record written by a save that follows a change of the cycle part only.
Serialized(ev, avg) == SerializedState(ev, avg, profile, logs, library)

\* ------------------------------------------------------- pure functions

\* events.find(e => e.date === dateStr && e.type === type) !== undefined
existsEventNever(ev, dateStr, type) == FALSE

existsEvent(ev, dateStr, type) ==
    \E i \in 1..Len(ev) : ev[i].date = dateStr /\ ev[i].type = type

\* Array.prototype.sort with the comparator new Date(a.date) - new Date(b.date):
\* a stable sort, so events of equal date keep their relative order.
InsertByDateReplacing(s, e) ==
    IF \E i \in 1..Len(s) : s[i].date = e.date
    THEN [i \in 1..Len(s) |-> IF s[i].date = e.date THEN e ELSE s[i]]
    ELSE LET k == Cardinality({i \in 1..Len(s) : s[i].date <= e.date})
         IN  SubSeq(s, 1, k) \o <<e>> \o SubSeq(s, k + 1, Len(s))

InsertByDate(s, e) ==
    LET k == Cardinality({i \in 1..Len(s) : s[i].date <= e.date})
    IN  SubSeq(s, 1, k) \o <<e>> \o SubSeq(s, k + 1, Len(s))

RECURSIVE StableSortByDate(_)
StableSortByDate(s) ==
    IF s = <<>> THEN <<>>
    ELSE InsertByDate(StableSortByDate(SubSeq(s, 1, Len(s) - 1)), s[Len(s)])

\* d = new Date(iso); d.setDate(d.getDate() + 5); d.toISOString().split('T')[0]
\* new Date(iso) is UTC midnight, setDate/getDate work on the LOCAL calendar
\* and keep the local wall-clock time, toISOString prints the UTC date.  When
\* the local clock springs forward on day t with iso in t-4..t, the result is
\* one hour short of UTC midnight of iso+5, which prints as iso+4.
plusDurationISO(s, dst) ==
    IF \E t \in dst : t - (SynthDuration - 1) <= s /\ s <= t
    THEN s + SynthDuration - 1
    ELSE s + SynthDuration

\* closeOpenCycles(newStartDate): the events array after the call.
closeOpenCycles(ev, newStartDate, dst) ==
    IF Len(ev) = 0 THEN ev
    ELSE LET lastEvent == ev[Len(ev)]
         IN  IF lastEvent.type = "start" /\ lastEvent.date < newStartDate
             THEN LET d == plusDurationISO(lastEvent.date, dst)
                  IN  IF d < newStartDate THEN Append(ev, End(d)) ELSE ev
             ELSE ev

RECURSIVE SumOver(_, _)
SumOver(f, S) ==
    IF S = {} THEN 0
    ELSE LET x == CHOOSE y \in S : TRUE IN f[x] + SumOver(f, S \ {x})

\* events.slice(i + 1).find(e => e.type === 'start'): index of it, 0 if none.
nextStartIndex(ev, i) ==
    LET later == {j \in (i + 1)..Len(ev) : ev[j].type = "start"}
    IN  IF later = {} THEN 0 ELSE CHOOSE j \in later : \A k \in later : j <= k

\* The outlier filter: days > 15 && days < 50
acceptedSampleFromMin(days) == days >= MinCycle /\ days < MaxCycle

acceptedSampleToMax(days) == days > MinCycle /\ days <= MaxCycle

acceptedSample(days) == days > MinCycle /\ days < MaxCycle

\* Math.round(totalDays / cycles), for totalDays >= 0 and cycles > 0: the
\* nearest integer, a half rounded up.
roundedMeanFloor(totalDays, cycles) == totalDays \div cycles

roundedMean(totalDays, cycles) == (2 * totalDays + cycles) \div (2 * cycles)

\* if (events.length < 3) return;
tooFewEventsNever(ev) == FALSE

tooFewEvents(ev) == Len(ev) < MinEventsForStats

\* recalculateCycleStats(): the value of state.cycle.avgLength after the call.
recalculateCycleStats(ev, avg) ==
    IF tooFewEvents(ev) THEN avg
    ELSE LET days == [i \in 1..Len(ev) |->
                        IF nextStartIndex(ev, i) = 0 THEN 0
                        ELSE ev[nextStartIndex(ev, i)].date - ev[i].date]
             accepted == {i \in 1..(Len(ev) - 1) :
                            /\ ev[i].type = "start"
                            /\ nextStartIndex(ev, i) # 0
                            /\ acceptedSample(days[i])}
             totalDays == SumOver(days, accepted)
             cycles == Cardinality(accepted)
         IN  IF cycles > 0
             THEN roundedMean(totalDays, cycles)
             ELSE avg

\* sortCycleEvents(): sorts the array (the statistics are recomputed by the
\* callers below, on the sorted array).
sortCycleEventsUnsorted(ev) == ev

sortCycleEvents(ev) == StableSortByDate(ev)

\* The fixed day ranges at the end of getPhaseForDate.
phaseOfCycleDayExclusive(currentCycleDay) ==
    IF currentCycleDay < MenstrualLast THEN "Menstrual"
    ELSE IF currentCycleDay < FollicularLast THEN "Follicular"
    ELSE IF currentCycleDay < OvulationLast THEN "Ovulation"
    ELSE "Luteal"

phaseOfCycleDay(currentCycleDay) ==
    IF currentCycleDay <= MenstrualLast THEN "Menstrual"
    ELSE IF currentCycleDay <= FollicularLast THEN "Follicular"
    ELSE IF currentCycleDay <= OvulationLast THEN "Ovulation"
    ELSE "Luteal"

\* currentCycleDay = ((daysSinceStart - 1) % avgLen) + 1
cycleDayOfNoWrap(daysSinceStart, avgLen) == daysSinceStart

cycleDayOf(daysSinceStart, avgLen) == ((daysSinceStart - 1) % avgLen) + 1

\* Whether the explicit-log check of getPhaseForDate answers 'Menstrual':
\* the last event on or before the date is a start no more than 7 days back.
inOpenPeriod(lastEvent, d) ==
    lastEvent.type = "start" /\ d - lastEvent.date <= OpenCap

\* [...events].reverse().find(e => e.type === 'start' && new Date(e.date) <= tDate):
\* the index of that event, 0 when find returns undefined.
lastStartIndexAnyDate(ev, d) ==
    LET starts == {i \in 1..Len(ev) : ev[i].type = "start"}
    IN  IF starts = {} THEN 0 ELSE CHOOSE i \in starts : \A j \in starts : j <= i

lastStartIndex(ev, d) ==
    LET starts == {i \in 1..Len(ev) : ev[i].type = "start" /\ ev[i].date <= d}
    IN  IF starts = {} THEN 0 ELSE CHOOSE i \in starts : \A j \in starts : j <= i

\* getPhaseForDate(dateStr)
getPhaseForDate(ev, avg, d) ==
    LET \* for (e of events) { if (e.date <= d) lastEvent = e; else break; }
        later == {i \in 1..Len(ev) : ev[i].date > d}
        stop == IF later = {} THEN Len(ev) + 1
                ELSE CHOOSE i \in later : \A j \in later : i <= j
        hasLast == stop > 1
        lastEvent == ev[stop - 1]
        lastStart == ev[lastStartIndex(ev, d)]
        daysSinceStart == (d - lastStart.date) + 1
        avgLen == IF avg = 0 THEN DefaultAvgLength ELSE avg
    IN  IF hasLast /\ inOpenPeriod(lastEvent, d) THEN "Menstrual"
        ELSE IF lastStartIndex(ev, d) = 0 THEN "Follicular"
        ELSE phaseOfCycleDay(cycleDayOf(daysSinceStart, avgLen))

\* getFactoryDefaults(): profile and logs.
FactoryProfile ==
    [weight |-> 650, bodyFat |-> 22, activityLevel |-> "moderate",
     goals |-> [dailyCalories |-> 2000, protein |-> 130, carbs |-> 200,
                fat |-> 60, fiber |-> 25, water |-> 2500]]

FactoryLogs == [nutrition |-> <<>>, workouts |-> <<>>, weight |-> <<>>, water |-> <<>>]

\* The activity multipliers, in fortieths: 1.2, 1.375, 1.55, 1.725, 1.9;
\* multipliers[p.activityLevel] || 1.55
activityFortieths(level) ==
    CASE level = "sedentary" -> 48
      [] level = "light" -> 55
      [] level = "moderate" -> 62
      [] level = "active" -> 69
      [] level = "athlete" -> 76
      [] OTHER -> 62

\* phaseBurn = (phase === 'Luteal') ? 150 : 0
phaseBurnLowerCase(phase) == IF phase = "luteal" THEN 150 ELSE 0

phaseBurn(phase) == IF phase = "Luteal" THEN 150 ELSE 0

\* calculateKatchMcArdle(): with weight w in tenths of a kilogram and body fat
\* b in percent, bmr = 370 + 21.6 * (w/10) * (1 - b/100)
\*                   = (462500 + 27 * w * (100 - b)) / 1250,
\* and Math.floor(bmr * activity + phaseBurn) with activity = a/40 is
\* floor((462500 + 27 * w * (100 - b)) * a / 50000) + phaseBurn.
calculateKatchMcArdle(ev, avg, prof, lg, today) ==
    LET currentWeight == IF today \in DOMAIN lg.weight /\ lg.weight[today] # 0
                         THEN lg.weight[today] ELSE prof.weight
        bodyFat == IF prof.bodyFat = 0 THEN 25 ELSE prof.bodyFat
        activity == activityFortieths(prof.activityLevel)
        phase == getPhaseForDate(ev, avg, today)
    IN  ((462500 + 27 * currentWeight * (100 - bodyFat)) * activity) \div 50000
            + phaseBurn(phase)

\* ------------------------------------------------------------ operations

\* The host's time zone: one without daylight saving, or one that springs
\* forward on SpringDay.
HostZones == {{}, {SpringDay}}

Init ==
    /\ events = <<>>
    /\ avgLength = DefaultAvgLength
    /\ persisted = <<>>
    /\ emitted = 0
    /\ alerted = FALSE
    /\ dstDays \in HostZones
    /\ lastOp = [op |-> "boot", date |-> 0]
    /\ twin = [events |-> <<>>, avgLength |-> DefaultAvgLength]
    /\ profile = FactoryProfile
    /\ logs = FactoryLogs
    /\ library = <<>>
    /\ runtime = [today |-> Today, tdee |-> calculateKatchMcArdle(<<>>, DefaultAvgLength, FactoryProfile, FactoryLogs, Today)]
    /\ pc = "ready"
    /\ now = 0
    /\ sent = <<>>
    /\ tracker = FreshTracker
    /\ counter = NoCounter
    /\ returned = NoValue

\* broadcast(reason): the part of the payload that is derived from the state,
\* calculated.tdee read from the runtime cache and calculated.phase computed.
broadcast(reason, ev, avg, rt) ==
    [reason |-> reason, tdee |-> rt.tdee, phase |-> getPhaseForDate(ev, avg, rt.today)]

\* save(): localStorage.setItem either succeeds (then broadcast('DATA_SAVED'))
\* or throws (quota), which is caught and reported with alert().
save(ev, avg, ok) ==
    IF ok
    THEN /\ persisted' = <<Serialized(ev, avg)>>
         /\ emitted' = 1
         /\ sent' = <<broadcast("DATA_SAVED", ev, avg, runtime)>>
         /\ alerted' = FALSE
    ELSE /\ persisted' = persisted
         /\ emitted' = 0
         /\ sent' = <<>>
         /\ alerted' = TRUE

\* An early return: nothing is written, saved or dispatched.
Return ==
    /\ events' = events
    /\ avgLength' = avgLength
    /\ persisted' = persisted
    /\ emitted' = 0
    /\ sent' = <<>>
    /\ alerted' = FALSE

logPeriodStart(dateStr, ok) ==
    /\ lastOp' = [op |-> "logPeriodStart", date |-> dateStr]
    /\ dstDays' = dstDays
    /\ twin' = twin
    /\ UNCHANGED dailyVars
    /\ IF existsEvent(events, dateStr, "start")
       THEN Return
       ELSE LET closed == closeOpenCycles(events, dateStr, dstDays)
                sorted == sortCycleEvents(Append(closed, Start(dateStr)))
                avg == recalculateCycleStats(sorted, avgLength)
            IN  /\ Len(sorted) <= MaxEvents
                /\ events' = sorted
                /\ avgLength' = avg
                /\ save(sorted, avg, ok)

\* The backward scan of logPeriodEnd: index of the Start to close, 0 if none.
targetIndexAnyStart(ev, dateStr) ==
    LET open == {i \in 1..Len(ev) :
                    ev[i].type = "start" /\ ev[i].date <= dateStr}
    IN  IF open = {} THEN 0 ELSE CHOOSE i \in open : \A j \in open : j <= i

targetIndex(ev, dateStr) ==
    LET open == {i \in 1..Len(ev) :
                    /\ ev[i].type = "start" /\ ev[i].date <= dateStr
                    /\ (i = Len(ev) \/ ev[i + 1].type = "start")}
    IN  IF open = {} THEN 0 ELSE CHOOSE i \in open : \A j \in open : j <= i

logPeriodEnd(dateStr, ok) ==
    /\ lastOp' = [op |-> "logPeriodEnd", date |-> dateStr]
    /\ dstDays' = dstDays
    /\ twin' = twin
    /\ UNCHANGED dailyVars
    /\ IF existsEvent(events, dateStr, "end")
       THEN Return
       ELSE IF targetIndex(events, dateStr) = 0
       THEN Return
       ELSE LET sorted == sortCycleEvents(Append(events, End(dateStr)))
                avg == recalculateCycleStats(sorted, avgLength)
            IN  /\ Len(sorted) <= MaxEvents
                /\ events' = sorted
                /\ avgLength' = avg
                /\ save(sorted, avg, ok)

Next ==
    \/ \E d \in Dates, ok \in BOOLEAN : logPeriodStart(d, ok)
    \/ \E d \in Dates, ok \in BOOLEAN : logPeriodEnd(d, ok)

Spec == Init /\ [][Next]_vars

\* save() after a change of any part of the state, followed by the further
\* broadcasts `more` of the calling operation.
saveStateDroppingRecord(ev, avg, prof, lg, lib, ok, more) ==
    /\ persisted' = IF ok THEN <<SerializedState(ev, avg, prof, lg, lib)>> ELSE <<>>
    /\ emitted' = (IF ok THEN 1 ELSE 0) + Len(more)
    /\ sent' = (IF ok THEN <<broadcast("DATA_SAVED", ev, avg, runtime)>> ELSE <<>>) \o more
    /\ alerted' = ~ok

saveState(ev, avg, prof, lg, lib, ok, more) ==
    /\ persisted' = IF ok THEN <<SerializedState(ev, avg, prof, lg, lib)>> ELSE persisted
    /\ emitted' = (IF ok THEN 1 ELSE 0) + Len(more)
    /\ sent' = (IF ok THEN <<broadcast("DATA_SAVED", ev, avg, runtime)>> ELSE <<>>) \o more
    /\ alerted' = ~ok

\* The value stored under key k of the map m, in a map that has k.
putAlone(m, k, v) == [x \in {k} |-> v]

put(m, k, v) == [x \in DOMAIN m \cup {k} |-> IF x = k THEN v ELSE m[x]]

\* m[k] || dflt for a map of lists
listAtFresh(m, k) == <<>>

listAt(m, k) == IF k \in DOMAIN m THEN m[k] ELSE <<>>

\* if (!w || w < 20) return;  with w = parseFloat(val), in tenths
rejectedWeight(w) == w.t = "NaN" \/ w.v = 0 \/ w.v < 200

setWeight(dateStr, val, ok) ==
    /\ lastOp' = [op |-> "setWeight", date |-> dateStr, arg |-> val]
    /\ UNCHANGED <<dstDays, twin, events, avgLength, library, pc, now, tracker, returned, counter>>
    /\ LET w == parseFloat(val)
       IN  IF rejectedWeight(w)
           THEN /\ persisted' = persisted /\ emitted' = 0 /\ alerted' = FALSE
                /\ sent' = <<>>
                /\ UNCHANGED <<profile, logs, runtime>>
           ELSE LET lg == [logs EXCEPT !.weight = put(@, dateStr, w.v)]
                    prof == IF dateStr = runtime.today
                            THEN [profile EXCEPT !.weight = w.v] ELSE profile
                    rt == [runtime EXCEPT !.tdee =
                            calculateKatchMcArdle(events, avgLength, prof, lg, runtime.today)]
                IN  /\ logs' = lg
                    /\ profile' = prof
                    /\ saveState(events, avgLength, prof, lg, library, ok,
                                 <<broadcast("WEIGHT_UPDATED", events, avgLength, rt)>>)
                    /\ runtime' = rt

\* name.toLowerCase()
toLowerCaseKeeping(name) == name

toLowerCase(name) == IF name = "Chai" THEN "chai" ELSE name

\* library.findIndex(f => f.name.toLowerCase() === food.name.toLowerCase()) !== -1
inLibrary(lib, name) ==
    \E i \in 1..Len(lib) : toLowerCase(lib[i].name) = toLowerCase(name)

\* a.name.localeCompare(b.name) <= 0 for the names of the model
nameLeq(a, b) ==
    LET rank(n) == IF toLowerCase(n) = "chai" THEN 1 ELSE 2
    IN  rank(a) <= rank(b)

\* library.push(item); library.sort((a,b) => a.name.localeCompare(b.name))
\* on a library that is sorted already.
pushSorted(lib, item) ==
    LET k == Cardinality({i \in 1..Len(lib) : nameLeq(lib[i].name, item.name)})
    IN  SubSeq(lib, 1, k) \o <<item>> \o SubSeq(lib, k + 1, Len(lib))

logFood(dateStr, food, ok) ==
    /\ lastOp' = [op |-> "logFood", date |-> dateStr, arg |-> food]
    /\ UNCHANGED <<dstDays, twin, events, avgLength, profile, runtime, pc, now, tracker, returned, counter>>
    /\ LET entry == [id |-> now, name |-> food.name,
                     cals |-> parseInt(food.cals), p |-> parseFloat(food.p),
                     c |-> parseFloat(food.c), f |-> parseFloat(food.f),
                     fiber |-> parseFloat(IF falsy(food.fiber) THEN Number(0)
                                          ELSE food.fiber)]
           lg == [logs EXCEPT !.nutrition =
                    put(@, dateStr, Append(listAt(@, dateStr), entry))]
           lib == IF inLibrary(library, food.name) THEN library
                  ELSE pushSorted(library, food)
       IN  /\ logs' = lg
           /\ library' = lib
           /\ saveState(events, avgLength, profile, lg, lib, ok, <<>>)

logWorkout(dateStr, workout, ok) ==
    /\ lastOp' = [op |-> "logWorkout", date |-> dateStr, arg |-> workout]
    /\ UNCHANGED <<dstDays, twin, events, avgLength, profile, library, runtime, pc, now, tracker, returned, counter>>
    /\ LET entry == [id |-> now, type |-> workout.type, burn |-> workout.burn]
           lg == [logs EXCEPT !.workouts =
                    put(@, dateStr, Append(listAt(@, dateStr), entry))]
       IN  /\ logs' = lg
           /\ saveState(events, avgLength, profile, lg, library, ok, <<>>)

\* Whether today's water leaves room for one more glass below cap glasses.
roomForGlass(cap) ==
    (IF runtime.today \in DOMAIN logs.water THEN logs.water[runtime.today] ELSE 0)
        + Glass <= cap * Glass

addWater(amount, ok) ==
    /\ lastOp' = [op |-> "addWater", date |-> runtime.today, arg |-> amount]
    /\ UNCHANGED <<dstDays, twin, events, avgLength, profile, library, runtime, pc, now, tracker, returned, counter>>
    /\ LET curr == IF runtime.today \in DOMAIN logs.water
                   THEN logs.water[runtime.today] ELSE 0
           lg == [logs EXCEPT !.water = put(@, runtime.today, curr + amount)]
       IN  /\ logs' = lg
           /\ saveState(events, avgLength, profile, lg, library, ok, <<>>)

\* The whole store: the cycle calls on one past date, the daily logging calls
\* on that date and on today.
NextStore ==
    \/ \E d \in StoreCycleDates, ok \in BOOLEAN : logPeriodStart(d, ok)
    \/ \E d \in StoreCycleDates, ok \in BOOLEAN : logPeriodEnd(d, ok)
    \/ \E d \in StoreDates, v \in WeightInputs, ok \in BOOLEAN : setWeight(d, v, ok)
    \/ \E d \in StoreDates, food \in FoodInputs, ok \in BOOLEAN :
          Len(listAt(logs.nutrition, d)) < MaxEntries /\ logFood(d, food, ok)
    \/ \E d \in StoreDates, w \in WorkoutInputs, ok \in BOOLEAN :
          Len(listAt(logs.workouts, d)) < MaxEntries /\ logWorkout(d, w, ok)
    \/ \E ok \in BOOLEAN : roomForGlass(MaxGlasses) /\ addWater(Glass, ok)

\* No call of SpecStore synthesizes an end, so one host zone is enough.
InitStore == Init /\ dstDays = {}

SpecStore == InitStore /\ [][NextStore]_vars

\* item.x || 0 for a numeric field of a nutrition entry: NaN, null and 0 give 0.
orZero(x) == IF x.t = "num" THEN x.v ELSE 0

\* acc + (item.burn || 0): the sum of two numbers, and the concatenation of
\* the two as text when either is a string.
plusBurnReplacing(acc, b) ==
    IF falsy(b) THEN acc
    ELSE IF b.kind = "number" THEN Num(b.prefix[1])
    ELSE [t |-> "string"]

plusBurn(acc, b) ==
    IF falsy(b) THEN acc
    ELSE IF acc.t = "num" /\ b.kind = "number" THEN Num(acc.v + b.prefix[1])
    ELSE [t |-> "string"]

\* wLogs.reduce((acc, item) => acc + (item.burn || 0), 0)
RECURSIVE reduceBurn(_, _)
reduceBurn(w, n) ==
    IF n = 0 THEN Num(0) ELSE plusBurn(reduceBurn(w, n - 1), w[n].burn)

\* getDailyStats(dateStr): { macros, burn }
dailyStats(lg, dateStr) ==
    LET nLogs == listAt(lg.nutrition, dateStr)
        wLogs == listAt(lg.workouts, dateStr)
        idx == 1..Len(nLogs)
    IN  [kind |-> "stats",
         macros |-> [cals |-> SumOver([i \in idx |-> orZero(nLogs[i].cals)], idx),
                     p |-> SumOver([i \in idx |-> orZero(nLogs[i].p)], idx),
                     c |-> SumOver([i \in idx |-> orZero(nLogs[i].c)], idx),
                     f |-> SumOver([i \in idx |-> orZero(nLogs[i].f)], idx),
                     fiber |-> SumOver([i \in idx |-> orZero(nLogs[i].fiber)], idx)],
         burn |-> reduceBurn(wLogs, Len(wLogs))]

getDailyStats(dateStr) ==
    /\ lastOp' = [op |-> "getDailyStats", date |-> dateStr]
    /\ returned' = dailyStats(logs, dateStr)
    /\ emitted' = 0
    /\ sent' = <<>>
    /\ alerted' = FALSE
    /\ UNCHANGED <<events, avgLength, persisted, dstDays, twin, profile, logs,
                   library, runtime, pc, now, tracker, counter>>

\* Number of nutrition and workout entries in the store.
totalEntries(lg) ==
    SumOver([d \in DOMAIN lg.nutrition |-> Len(lg.nutrition[d])], DOMAIN lg.nutrition)
    + SumOver([d \in DOMAIN lg.workouts |-> Len(lg.workouts[d])], DOMAIN lg.workouts)

\* Daily logging on two dates with a working localStorage, and the totals
\* queried in between.
NextDaily ==
    \/ \E d \in DailyDates, food \in DailyFoodInputs :
          totalEntries(logs) < MaxDailyEntries /\ logFood(d, food, TRUE)
    \/ \E d \in DailyDates, w \in WorkoutInputs :
          totalEntries(logs) < MaxDailyEntries /\ logWorkout(d, w, TRUE)
    \/ roomForGlass(MaxDailyGlasses) /\ addWater(Glass, TRUE)
    \/ \E d \in DailyDates : getDailyStats(d)

SpecDaily == InitStore /\ [][NextDaily]_vars

\* nutrition[dateStr].filter(f => f.id !== id)
RECURSIVE filterOutId(_, _)
filterOutId(list, id) ==
    IF list = <<>> THEN <<>>
    ELSE LET rest == filterOutId(SubSeq(list, 1, Len(list) - 1), id)
             last == list[Len(list)]
         IN  IF last.id # id THEN Append(rest, last) ELSE rest

removeFood(dateStr, id, ok) ==
    /\ lastOp' = [op |-> "removeFood", date |-> dateStr, arg |-> id]
    /\ UNCHANGED <<dstDays, twin, events, avgLength, profile, library, runtime,
                   pc, now, tracker, returned, counter>>
    /\ IF dateStr \in DOMAIN logs.nutrition
       THEN LET lg == [logs EXCEPT !.nutrition[dateStr] = filterOutId(@, id)]
            IN  /\ logs' = lg
                /\ saveState(events, avgLength, profile, lg, library, ok, <<>>)
       ELSE /\ logs' = logs
            /\ persisted' = persisted /\ emitted' = 0 /\ alerted' = FALSE
            /\ sent' = <<>>

\* A millisecond passes: Date.now() grows by one.
Tick ==
    /\ now' = now + 1
    /\ UNCHANGED <<events, avgLength, persisted, emitted, alerted, dstDays, lastOp,
                   twin, profile, logs, library, runtime, pc, sent, tracker, returned, counter>>

\* Foods logged and removed on one date while the clock runs.
NextClock ==
    \/ now < MaxClock /\ Tick
    \/ \E d \in StoreDates, food \in FoodInputs, ok \in BOOLEAN :
          Len(listAt(logs.nutrition, d)) < MaxFoods /\ logFood(d, food, ok)
    \/ \E d \in StoreDates, id \in 0..MaxClock, ok \in BOOLEAN : removeFood(d, id, ok)

SpecClock == InitStore /\ [][NextClock]_vars

\* new Date().toISOString().split('T')[0]: the calendar date at clock value t,
\* for a clock that counts the milliseconds since the midnight that began the
\* day of the construction.
currentDate(t) == Today + t \div MsPerDay

\* Time passes until the next midnight: the calendar date changes while the
\* page stays open.
Midnight ==
    /\ now' = (now \div MsPerDay + 1) * MsPerDay
    /\ UNCHANGED <<events, avgLength, persisted, emitted, alerted, dstDays, lastOp,
                   twin, profile, logs, library, runtime, pc, sent, tracker, returned, counter>>

\* Water and weight logged on a page that stays open over midnight.
NextMidnight ==
    \/ currentDate(now) < Today + MaxNights /\ Midnight
    \/ \E ok \in BOOLEAN : roomForGlass(MaxDailyGlasses) /\ addWater(Glass, ok)
    \/ \E v \in WeightInputs, ok \in BOOLEAN : setWeight(currentDate(now), v, ok)

SpecMidnight == InitStore /\ [][NextMidnight]_vars

\* A stored text that JSON.parse rejects.
CorruptRecord == [corrupt |-> TRUE]

\* A record written by an earlier session: one period start and a weight of
\* 70 kg logged on the day of that start.
EarlierRecord ==
    SerializedState(<<Start(0)>>, DefaultAvgLength, FactoryProfile,
                    [FactoryLogs EXCEPT !.weight = put(@, 0, 700)], <<>>)

\* What localStorage holds under STORAGE_KEY when the page loads: nothing,
\* a text that is no JSON, or the record of an earlier session.
BootRecords == {<<>>, <<CorruptRecord>>, <<EarlierRecord>>}

FactoryDefaults ==
    [events |-> <<>>, avgLength |-> DefaultAvgLength, profile |-> FactoryProfile,
     logs |-> FactoryLogs, library |-> <<>>]

\* loadState(): getItem and JSON.parse inside try; a missing item and a parse
\* error both end in getFactoryDefaults().
loadStateNoCatch(p) ==
    IF p = <<>> THEN FactoryDefaults ELSE p[1]

loadState(p) ==
    IF p = <<>> \/ "corrupt" \in DOMAIN p[1] THEN FactoryDefaults ELSE p[1]

\* The page before the constructor has run: no state object, runtime.tdee 0.
BeforeBoot ==
    /\ events = <<>>
    /\ avgLength = 0
    /\ emitted = 0
    /\ alerted = FALSE
    /\ dstDays = {}
    /\ lastOp = [op |-> "load", date |-> 0]
    /\ twin = [events |-> <<>>, avgLength |-> DefaultAvgLength]
    /\ profile = [FactoryProfile EXCEPT !.weight = 0, !.bodyFat = 0]
    /\ logs = FactoryLogs
    /\ library = <<>>
    /\ runtime = [today |-> Today, tdee |-> 0]
    /\ pc = "boot"
    /\ now = 0
    /\ sent = <<>>
    /\ tracker = FreshTracker
    /\ counter = NoCounter
    /\ returned = NoValue

InitBoot == BeforeBoot /\ persisted \in BootRecords

\* new RehmaHealthOS(): loadState, validateState, init.  validateState reads
\* state.logs and state.profile.goals and fills state.library; init reads
\* state.logs.weight and state.cycle.events: each read throws when the loaded
\* value lacks the object.  A record that holds cycle holds cycle.avgLength.
Boot ==
    /\ pc = "boot"
    /\ lastOp' = [op |-> "boot", date |-> 0]
    /\ UNCHANGED <<persisted, dstDays, twin, now, tracker, returned, counter>>
    /\ emitted' = 0
    /\ sent' = <<>>
    /\ alerted' = FALSE
    /\ LET st == loadState(persisted)
       IN  IF /\ {"events", "profile", "logs"} \subseteq DOMAIN st
              /\ "weight" \in DOMAIN st.logs
           THEN /\ events' = st.events
                /\ avgLength' = recalculateCycleStats(st.events, st.avgLength)
                /\ profile' = st.profile
                /\ logs' = st.logs
                /\ library' = IF "library" \in DOMAIN st THEN st.library ELSE <<>>
                /\ runtime' = [runtime EXCEPT !.tdee =
                      calculateKatchMcArdle(st.events, st.avgLength, st.profile,
                                            st.logs, runtime.today)]
                /\ pc' = "ready"
           ELSE /\ pc' = "crashed"
                /\ UNCHANGED <<events, avgLength, profile, logs, library, runtime>>

\* A page load followed by calls on the running store.
NextBoot ==
    \/ Boot
    \/ /\ pc = "ready"
       /\ \/ \E d \in StoreCycleDates, ok \in BOOLEAN : logPeriodStart(d, ok)
          \/ \E d \in StoreCycleDates, ok \in BOOLEAN : logPeriodEnd(d, ok)
          \/ \E d \in StoreDates, v \in WeightInputs, ok \in BOOLEAN : setWeight(d, v, ok)
          \/ \E ok \in BOOLEAN : roomForGlass(MaxGlasses) /\ addWater(Glass, ok)

SpecBoot == InitBoot /\ [][NextBoot]_vars

\* The record rec without its field f.
without(rec, f) == [x \in DOMAIN rec \ {f} |-> rec[x]]

\* Parseable records of an earlier session or an earlier version: complete,
\* without library, without logs.water, and without cycle.
LoadRecords ==
    {<<EarlierRecord>>,
     <<without(EarlierRecord, "library")>>,
     <<[EarlierRecord EXCEPT !.logs = without(@, "water")]>>,
     <<without(without(EarlierRecord, "events"), "avgLength")>>}

InitLoad == BeforeBoot /\ persisted \in LoadRecords

\* The timer set by init fires: broadcast('SYSTEM_READY').  broadcast reads
\* logs.nutrition and logs.workouts (getDailyStats), logs.weight and
\* logs.water, and throws when one of them is missing.
SystemReady ==
    /\ pc = "ready"
    /\ lastOp' = [op |-> "systemReady", date |-> 0]
    /\ UNCHANGED <<events, avgLength, persisted, dstDays, twin, profile, logs,
                   library, runtime, now, tracker, returned, counter>>
    /\ alerted' = FALSE
    /\ IF {"nutrition", "workouts", "weight", "water"} \subseteq DOMAIN logs
       THEN /\ emitted' = 1
            /\ sent' = <<broadcast("SYSTEM_READY", events, avgLength, runtime)>>
            /\ pc' = "online"
       ELSE /\ emitted' = 0
            /\ sent' = <<>>
            /\ pc' = "silent"

\* A page load on a record of an earlier session, the first notification,
\* and calls on the store once it has announced itself.
NextLoad ==
    \/ Boot
    \/ SystemReady
    \/ /\ pc = "online"
       /\ \/ \E d \in StoreCycleDates, ok \in BOOLEAN : logPeriodStart(d, ok)
          \/ \E d \in StoreCycleDates, ok \in BOOLEAN : logPeriodEnd(d, ok)
          \/ \E d \in StoreDates, v \in WeightInputs, ok \in BOOLEAN : setWeight(d, v, ok)
          \/ \E ok \in BOOLEAN : roomForGlass(MaxGlasses) /\ addWater(Glass, ok)

SpecLoad == InitLoad /\ [][NextLoad]_vars

\* Weights logged for a past date and for today, next to water and a period.
WeightDates == {0, Today}
WeightValues == {Number(700), Number(655), Number(150), TrailingText(700)}

NextWeight ==
    \/ \E d \in WeightDates, v \in WeightValues, ok \in BOOLEAN : setWeight(d, v, ok)
    \/ \E d \in StoreCycleDates : logPeriodStart(d, TRUE)
    \/ roomForGlass(MaxGlasses) /\ addWater(Glass, TRUE)

SpecWeight == InitStore /\ [][NextWeight]_vars

\* Math.max(21, Math.min(35, predicted))
clampUpperOnly(x) == IF x > PredictMax THEN PredictMax ELSE x

clamp(x) == IF x < PredictMin THEN PredictMin ELSE IF x > PredictMax THEN PredictMax ELSE x

\* RehmaFitnessTracker.predictCycleLength(): weights 1..n, oldest first.
predictedLength(history) ==
    IF Len(history) < MinHistory THEN PredictDefault
    ELSE LET idx == 1..Len(history)
             weightedSum == SumOver([i \in idx |-> history[i] * i], idx)
             weightSum == SumOver([i \in idx |-> i], idx)
         IN  clamp(roundedMean(weightedSum, weightSum))

predictCycleLength ==
    /\ lastOp' = [op |-> "predictCycleLength", date |-> 0]
    /\ returned' = [kind |-> "number", v |-> predictedLength(tracker.cycleHistory)]
    /\ emitted' = 0
    /\ sent' = <<>>
    /\ alerted' = FALSE
    /\ UNCHANGED <<events, avgLength, persisted, dstDays, twin, profile, logs,
                   library, runtime, pc, now, tracker, counter>>

\* Sequences of cycle lengths of length at most n.
RECURSIVE historiesUpTo(_)
historiesUpTo(n) ==
    IF n = 0 THEN {<<>>}
    ELSE LET shorter == historiesUpTo(n - 1)
         IN  shorter \cup {Append(h, c) : h \in shorter, c \in CycleLengths}

\* RehmaFitnessTracker.loadData(): the stored cycleData replaces the fields
\* of this.cycleData, the cycle history and the last period start among them.
loadData(history, start) ==
    /\ lastOp' = [op |-> "loadData", date |-> 0]
    /\ tracker' = [cycleHistory |-> history, lastPeriodStart |-> start]
    /\ emitted' = 0
    /\ sent' = <<>>
    /\ alerted' = FALSE
    /\ UNCHANGED <<events, avgLength, persisted, dstDays, twin, profile, logs,
                   library, runtime, pc, now, returned, counter>>

\* The tracker: stored histories loaded and the cycle length predicted.
NextPredict ==
    \/ \E h \in historiesUpTo(MaxHistory), s \in StoredStarts : loadData(h, s)
    \/ predictCycleLength

SpecPredict == InitStore /\ [][NextPredict]_vars

\* a % n of JavaScript for n > 0: the remainder has the sign of a.
remainder(a, n) == IF a >= 0 THEN a % n ELSE -((-a) % n)

\* RehmaFitnessTracker.getCyclePhase(cycleDay, cycleLength), with
\* Math.round(cycleLength * 0.25) = floor((cycleLength + 2) / 4).
getCyclePhase(cycleDay, cycleLength) ==
    LET menstrual == 5
        follicular == (cycleLength + 2) \div 4 - 5
        ovulation == 3
    IN  IF cycleDay <= menstrual THEN "menstrual"
        ELSE IF cycleDay - menstrual <= follicular THEN "follicular"
        ELSE IF cycleDay - menstrual - follicular <= ovulation THEN "ovulation"
        ELSE "luteal"

\* RehmaFitnessTracker.calculateCycleDay(date), for a date and a last period
\* start that lie a whole number of days apart.
cycleDayInfo(trk, date) ==
    LET daysDiff == date - trk.lastPeriodStart
        predicted == predictedLength(trk.cycleHistory)
        cycleDay == remainder(daysDiff, predicted) + 1
    IN  [kind |-> "cycleDay", cycleDay |-> cycleDay, cycleLength |-> predicted,
         phase |-> getCyclePhase(cycleDay, predicted), daysSinceStart |-> daysDiff]

calculateCycleDay(date) ==
    /\ lastOp' = [op |-> "calculateCycleDay", date |-> date]
    /\ returned' = cycleDayInfo(tracker, date)
    /\ emitted' = 0
    /\ sent' = <<>>
    /\ alerted' = FALSE
    /\ UNCHANGED <<events, avgLength, persisted, dstDays, twin, profile, logs,
                   library, runtime, pc, now, tracker, counter>>

\* Stored cycle histories: none, and three cycles of one length.
SteadyHistories == {<<>>} \cup {[i \in 1..MinHistory |-> c] : c \in CycleLengths}

\* The tracker: stored data loaded and the cycle day of a date computed.
NextCycleDay ==
    \/ \E h \in SteadyHistories, s \in StoredStarts : loadData(h, s)
    \/ \E d \in CycleDayDates : calculateCycleDay(d)

SpecCycleDay == InitStore /\ [][NextCycleDay]_vars

\* Body-fat percentages and activity levels of stored profiles.
BodyFats == {0, 1, 22, 100}
ActivityLevels == {"sedentary", "light", "moderate", "active", "athlete"}

\* Records of an earlier session whose profile holds one of them.
ProfileRecords ==
    {<<[EarlierRecord EXCEPT !.profile.bodyFat = b, !.profile.activityLevel = a]>> :
        b \in BodyFats, a \in ActivityLevels}

InitEstimate == BeforeBoot /\ persisted \in ProfileRecords

\* A page load on a stored profile, then period and weight logging.
NextEstimate ==
    \/ Boot
    \/ /\ pc = "ready"
       /\ \/ \E d \in StoreCycleDates, ok \in BOOLEAN : logPeriodEnd(d, ok)
          \/ \E d \in StoreDates, v \in WeightInputs, ok \in BOOLEAN : setWeight(d, v, ok)

SpecEstimate == InitEstimate /\ [][NextEstimate]_vars

\* The same store, called with dates that lie 15, 16, 19, 31, 35 and 50 days
\* apart, the distances around the limits of the outlier filter.
NextStats ==
    \/ \E d \in StatsDates, ok \in BOOLEAN : logPeriodStart(d, ok)
    \/ \E d \in StatsDates, ok \in BOOLEAN : logPeriodEnd(d, ok)

SpecStats == Init /\ [][NextStats]_vars

\* The same store, called with dates whose distances are the least and the
\* greatest that the outlier filter keeps, and one day beyond each.
NextRange ==
    \/ \E d \in RangeDates, ok \in BOOLEAN : logPeriodStart(d, ok)
    \/ \E d \in RangeDates, ok \in BOOLEAN : logPeriodEnd(d, ok)

SpecRange == Init /\ [][NextRange]_vars

\* logPeriodStart(dateStr) on the second store instance.
twinLogPeriodStart(dateStr) ==
    /\ UNCHANGED cycleVars
    /\ UNCHANGED dailyVars
    /\ IF existsEvent(twin.events, dateStr, "start")
       THEN twin' = twin
       ELSE LET closed == closeOpenCycles(twin.events, dateStr, dstDays)
                sorted == sortCycleEvents(Append(closed, Start(dateStr)))
            IN  /\ Len(sorted) <= MaxEvents
                /\ twin' = [events |-> sorted,
                            avgLength |-> recalculateCycleStats(sorted, twin.avgLength)]

\* logPeriodEnd(dateStr) on the second store instance.
twinLogPeriodEnd(dateStr) ==
    /\ UNCHANGED cycleVars
    /\ UNCHANGED dailyVars
    /\ IF existsEvent(twin.events, dateStr, "end") \/ targetIndex(twin.events, dateStr) = 0
       THEN twin' = twin
       ELSE LET sorted == sortCycleEvents(Append(twin.events, End(dateStr)))
            IN  /\ Len(sorted) <= MaxEvents
                /\ twin' = [events |-> sorted,
                            avgLength |-> recalculateCycleStats(sorted, twin.avgLength)]

\* Two store instances, each started from the factory defaults, that receive
\* their calls independently of each other.
NextTwin ==
    \/ \E d \in TwinStartDates, ok \in BOOLEAN : logPeriodStart(d, ok)
    \/ \E d \in TwinEndDates, ok \in BOOLEAN : logPeriodEnd(d, ok)
    \/ \E d \in TwinStartDates : twinLogPeriodStart(d)
    \/ \E d \in TwinEndDates : twinLogPeriodEnd(d)

SpecTwin == Init /\ [][NextTwin]_vars

\* ------------------------------------------------------------ StepCounter

storeVars == <<events, avgLength, persisted, emitted, alerted, dstDays, twin,
               profile, logs, library, runtime, pc, now, sent, tracker, returned>>

\* resetDailySteps(): a reset when localStorage['lastStepReset'] is not today.
resetDailySteps(c) ==
    IF c.lastStepReset # <<c.day>>
    THEN [c EXCEPT !.steps = 0, !.simulatedSteps = 0, !.lastStepReset = <<c.day>>,
                   !.counted = 0]
    ELSE c

\* saveData(): the counts written to localStorage['rehmaStepCounter'].
saveData(c) ==
    [c EXCEPT !.stored = <<[steps |-> c.steps, simulatedSteps |-> c.simulatedSteps]>>]

\* StepCounter.loadData(): the stored counts, 0 where nothing is stored, then
\* resetDailySteps().
loadStepData(c) ==
    resetDailySteps(
        IF c.stored = <<>> THEN c
        ELSE [c EXCEPT !.steps = c.stored[1].steps,
                       !.simulatedSteps = c.stored[1].simulatedSteps])

\* requestDeviceMotion(): a permission request where the device has one,
\* otherwise active at once.
requestDeviceMotion(c) ==
    IF c.requestable THEN [c EXCEPT !.pending = @ + 1]
    ELSE [c EXCEPT !.isActive = TRUE]

\* pause()
pause(c) == [c EXCEPT !.isActive = FALSE]

\* resume()
resume(c) == resetDailySteps([c EXCEPT !.isActive = TRUE])

\* addStep()
addStep(c) == saveData([c EXCEPT !.steps = @ + 1, !.counted = @ + 1])

\* The page loads: new StepCounter(), that is the constructor and init():
\* loadData, setupEventListeners, requestDeviceMotion, startStepSimulation.
\* The page that loads is visible, and the promises of the page before it
\* are gone.
newStepCounter ==
    /\ lastOp' = [op |-> "newStepCounter", date |-> counter.day]
    /\ counter' = requestDeviceMotion(loadStepData(
                      [counter EXCEPT !.steps = 0, !.simulatedSteps = 0,
                                      !.isActive = FALSE, !.hidden = FALSE,
                                      !.pending = 0, !.built = TRUE,
                                      !.clickArmed = counter.requestable]))
    /\ UNCHANGED storeVars

\* The first click on the document: requestDeviceMotion(), once.
click ==
    /\ counter.built /\ counter.clickArmed /\ ~counter.hidden
    /\ lastOp' = [op |-> "click", date |-> counter.day]
    /\ counter' = requestDeviceMotion([counter EXCEPT !.clickArmed = FALSE])
    /\ UNCHANGED storeVars

\* A requestPermission() promise settles: .then(response => ...), or .catch.
permissionSettled(response) ==
    /\ counter.pending > 0
    /\ lastOp' = [op |-> "permissionSettled", date |-> counter.day]
    /\ counter' = [counter EXCEPT !.pending = @ - 1,
                                  !.isActive = IF response = "granted" THEN TRUE ELSE @]
    /\ UNCHANGED storeVars

\* A devicemotion event: handleDeviceMotion(event).
handleDeviceMotion(acceleration, elapsed) ==
    /\ counter.built
    /\ lastOp' = [op |-> "handleDeviceMotion", date |-> counter.day]
    /\ counter' = IF ~counter.isActive THEN counter
                  ELSE IF acceleration = <<>> THEN counter
                  ELSE IF acceleration[1] > stepThreshold /\ elapsed > stepCooldown
                  THEN addStep(counter)
                  ELSE counter
    /\ UNCHANGED storeVars

\* The interval of startStepSimulation fires; stepsToAdd is
\* Math.floor((80 + Math.random() * 40) / 60) = 1, and lucky says that
\* Math.random() < 0.7.
simulationTick(lucky) ==
    /\ counter.built
    /\ lastOp' = [op |-> "simulationTick", date |-> counter.day]
    /\ counter' = IF counter.isActive /\ lucky
                  THEN saveData([counter EXCEPT !.simulatedSteps = @ + 1,
                                                !.steps = @ + 1, !.counted = @ + 1])
                  ELSE counter
    /\ UNCHANGED storeVars

\* visibilitychange with document.hidden: pause().
pageHidden ==
    /\ counter.built /\ ~counter.hidden
    /\ lastOp' = [op |-> "pause", date |-> counter.day]
    /\ counter' = pause([counter EXCEPT !.hidden = TRUE])
    /\ UNCHANGED storeVars

\* visibilitychange with the document visible again: resume().
pageShown ==
    /\ counter.built /\ counter.hidden
    /\ lastOp' = [op |-> "resume", date |-> counter.day]
    /\ counter' = resume([counter EXCEPT !.hidden = FALSE])
    /\ UNCHANGED storeVars

\* Midnight passes: toDateString() names the next day.
nextDay ==
    /\ counter' = [counter EXCEPT !.day = @ + 1]
    /\ UNCHANGED lastOp
    /\ UNCHANGED storeVars

\* The step counter on a device with or without a motion-permission request.
InitSteps ==
    /\ events = <<>>
    /\ avgLength = DefaultAvgLength
    /\ persisted = <<>>
    /\ emitted = 0
    /\ alerted = FALSE
    /\ dstDays = {}
    /\ lastOp = [op |-> "boot", date |-> 0]
    /\ twin = [events |-> <<>>, avgLength |-> DefaultAvgLength]
    /\ profile = FactoryProfile
    /\ logs = FactoryLogs
    /\ library = <<>>
    /\ runtime = [today |-> Today, tdee |-> calculateKatchMcArdle(<<>>, DefaultAvgLength, FactoryProfile, FactoryLogs, Today)]
    /\ pc = "ready"
    /\ now = 0
    /\ sent = <<>>
    /\ tracker = FreshTracker
    /\ returned = NoValue
    /\ counter \in {[NoCounter EXCEPT !.requestable = r] : r \in BOOLEAN}

NextSteps ==
    \/ newStepCounter
    \/ click
    \/ \E response \in {"granted", "denied"} : permissionSettled(response)
    \/ \E a \in Accelerations, t \in ElapsedTimes :
          counter.steps < MaxSteps /\ handleDeviceMotion(a, t)
    \/ \E lucky \in BOOLEAN : counter.steps < MaxSteps /\ simulationTick(lucky)
    \/ pageHidden
    \/ pageShown
    \/ counter.day < MaxDay /\ nextDay

SpecSteps == InitSteps /\ [][NextSteps]_vars

TypeOK ==
    /\ \A i \in 1..Len(events) : events[i].type \in {"start", "end"}
    /\ Len(events) <= MaxEvents
    /\ avgLength \in (IF pc = "ready" THEN 1..MaxCycle ELSE 0..MaxCycle)
    /\ Len(persisted) <= 1
    /\ emitted \in 0..2
    /\ alerted \in BOOLEAN
    /\ profile.weight \in Nat /\ profile.bodyFat \in Nat
    /\ \A d \in DOMAIN logs.weight : logs.weight[d] \in Nat
    /\ "water" \in DOMAIN logs => \A d \in DOMAIN logs.water : logs.water[d] \in Nat
    /\ \A d \in DOMAIN logs.nutrition : \A i \in 1..Len(logs.nutrition[d]) :
           logs.nutrition[d][i].cals.t \in {"num", "NaN"}
    /\ runtime.today = Today /\ runtime.tdee \in Nat
    /\ pc \in {"boot", "ready", "crashed", "online", "silent"}
    /\ now \in Nat
    /\ Len(sent) = emitted
    /\ \A i \in 1..Len(tracker.cycleHistory) : tracker.cycleHistory[i] \in Nat
    /\ returned.kind \in {"none", "stats", "number", "cycleDay"}
    /\ counter.steps \in Nat /\ counter.simulatedSteps \in 0..counter.steps
    /\ counter.counted \in Nat /\ counter.pending \in 0..2
    /\ Len(counter.stored) <= 1 /\ Len(counter.lastStepReset) <= 1

\* ------------------------------------------------------------ properties

\* Number of occurrences of event e in the log ev.
Count(ev, e) == Cardinality({i \in 1..Len(ev) : ev[i] = e})

EventsOf(ev) == {ev[i] : i \in 1..Len(ev)}

\* ev2 holds exactly the events of ev1 and one more occurrence of e.
AddsExactly(ev1, ev2, e) ==
    /\ Len(ev2) = Len(ev1) + 1
    /\ \A x \in EventsOf(ev1) \cup EventsOf(ev2) \cup {e} :
        Count(ev2, x) = Count(ev1, x) + (IF x = e THEN 1 ELSE 0)

LastIsStart == Len(events) > 0 /\ events[Len(events)].type = "start"

QueryDates == 0..MaxQueryDate

\* C1: a logPeriodStart(d) that directly follows a logPeriodStart(d) of the
\* same date leaves the event log and avgLength as the first call left them.
C1_Idempotent ==
    [][(lastOp.op = "logPeriodStart" /\ lastOp' = lastOp)
        => (events' = events /\ avgLength' = avgLength)]_vars

\* A repeated logPeriodStart has just returned early on a date that holds a Start.
C1_Witness ==
    /\ lastOp.op = "logPeriodStart"
    /\ emitted = 0 /\ ~alerted
    /\ Count(events, Start(lastOp.date)) = 1
    /\ Len(events) >= 2

\* C2 (as stated): the event log is strictly sorted ascending by date, no two
\* adjacent events share a date.
C2_StrictlySorted ==
    \A i \in 1..(Len(events) - 1) : events[i].date < events[i + 1].date

\* C2 (amended): the event log is sorted ascending by date, and two adjacent
\* events share a date only when one is a Start and the other an End.
C2_Sorted ==
    \A i \in 1..(Len(events) - 1) :
        /\ events[i].date <= events[i + 1].date
        /\ events[i].date = events[i + 1].date
            => events[i].type # events[i + 1].type

\* A back-dated call has been sorted into place and a period ends on the day
\* it started.
C2_Witness ==
    /\ Len(events) >= 3
    /\ lastOp.date < events[Len(events)].date
    /\ Count(events, [date |-> lastOp.date,
                      type |-> IF lastOp.op = "logPeriodStart"
                               THEN "start" ELSE "end"]) = 1
    /\ \E i \in 1..(Len(events) - 1) : events[i].date = events[i + 1].date

\* C3: the sorted event log never holds two adjacent Start events.
C3_NoAdjacentStarts ==
    \A i \in 1..(Len(events) - 1) :
        ~(events[i].type = "start" /\ events[i + 1].type = "start")

\* C4: logPeriodStart(d) on a date without a Start adds End(s+5) between
\* Start(s) and Start(d) exactly when the latest event is a Start dated s with
\* s < d and s+5 < d; otherwise the only event added is Start(d).
C4_AutoClose ==
    [][(lastOp'.op = "logPeriodStart" /\ Count(events, Start(lastOp'.date)) = 0)
        => LET d == lastOp'.date
               s == events[Len(events)].date
           IN  IF LastIsStart /\ s < d /\ s + 5 < d
               THEN events' = events \o <<End(s + 5), Start(d)>>
               ELSE AddsExactly(events, events', Start(d))]_vars

\* C5: logPeriodEnd(d) on a date without an End adds exactly one End(d) when
\* an open Start dated on or before d exists, and otherwise changes nothing
\* and notifies nobody.
OpenStartOnOrBefore(ev, d) ==
    \E i \in 1..Len(ev) :
        /\ ev[i].type = "start" /\ ev[i].date <= d
        /\ (i = Len(ev) \/ ev[i + 1].type = "start")

C5_EndOrNoOp ==
    [][(lastOp'.op = "logPeriodEnd" /\ Count(events, End(lastOp'.date)) = 0)
        => IF OpenStartOnOrBefore(events, lastOp'.date)
           THEN AddsExactly(events, events', End(lastOp'.date))
           ELSE /\ events' = events /\ avgLength' = avgLength
                /\ persisted' = persisted
                /\ emitted' = 0 /\ alerted' = FALSE]_vars

\* logPeriodEnd was just called on a date after a Start that is already
\* closed, and recorded nothing.
C5_Witness ==
    /\ lastOp.op = "logPeriodEnd"
    /\ Count(events, End(lastOp.date)) = 0
    /\ \E i \in 1..Len(events) :
        events[i].type = "start" /\ events[i].date <= lastOp.date
    /\ emitted = 0 /\ ~alerted

\* C6: every End event is immediately preceded in the log by a Start event.
C6_NoOrphanEnd ==
    \A i \in 1..Len(events) :
        events[i].type = "end" => (i > 1 /\ events[i - 1].type = "start")

\* C7: the event log is append-only, every event of the log is still in the
\* log, as often as before, after any step.
C7_AppendOnly ==
    [][/\ Len(events') >= Len(events)
       /\ \A e \in EventsOf(events) : Count(events', e) >= Count(events, e)]_vars

\* A call has just been sorted in front of events logged earlier.
C7_Witness ==
    /\ Len(events) >= 3
    /\ lastOp.op \in {"logPeriodStart", "logPeriodEnd"}
    /\ lastOp.date < events[Len(events)].date
    /\ emitted = 1

\* The phase mapping of the claims: cycle day 1-5 Menstrual, 6-13 Follicular,
\* 14-17 Ovulation, 18 and above Luteal, for the cycle day counted from the
\* most recent Start on or before the date.
HasStartOnOrBefore(d) ==
    \E i \in 1..Len(events) : events[i].type = "start" /\ events[i].date <= d

RecentStartDate(d) ==
    LET S == {events[i].date : i \in {j \in 1..Len(events) :
                events[j].type = "start" /\ events[j].date <= d}}
    IN  CHOOSE x \in S : \A y \in S : y <= x

MappedPhase(d) ==
    LET cycleDay == ((d - RecentStartDate(d)) % avgLength) + 1
    IN  CASE cycleDay \in 1..5 -> "Menstrual"
          [] cycleDay \in 6..13 -> "Follicular"
          [] cycleDay \in 14..17 -> "Ovulation"
          [] OTHER -> "Luteal"

\* The latest event on or before d is a Start dated at most 7 days before d.
LatestIsRecentStart(d) ==
    LET I == {i \in 1..Len(events) : events[i].date <= d}
    IN  /\ I # {}
        /\ LET last == events[CHOOSE i \in I : \A j \in I : j <= i]
           IN  last.type = "start" /\ d - last.date <= 7

\* C8 (as stated): for every date with a Start on or before it,
\* getPhaseForDate is the fixed mapping of the cycle day.
C8_FixedMapping ==
    \A d \in QueryDates :
        HasStartOnOrBefore(d) => getPhaseForDate(events, avgLength, d) = MappedPhase(d)

\* C8 (amended): getPhaseForDate is the fixed mapping of the cycle day for
\* every date with a Start on or before it, unless the latest event on or
\* before the date is a Start at most 7 days before it.
C8_MappingOutsideOpenPeriod ==
    \A d \in QueryDates :
        (HasStartOnOrBefore(d) /\ ~LatestIsRecentStart(d))
            => getPhaseForDate(events, avgLength, d) = MappedPhase(d)

\* A learned average other than the default is in use, and the mapping
\* answers each of the four phases on dates outside an open period.
C8_Witness ==
    /\ avgLength # DefaultAvgLength
    /\ \A ph \in {"Menstrual", "Follicular", "Ovulation", "Luteal"} :
        \E d \in QueryDates :
            /\ HasStartOnOrBefore(d) /\ ~LatestIsRecentStart(d)
            /\ getPhaseForDate(events, avgLength, d) = ph

\* C9: when the log ends with a Start at s, s is Menstrual and s + avgLength
\* is Menstrual again (day 1 of the projected cycle); with avgLength = 28,
\* s + 14 is Ovulation and s + 28 is Menstrual.
C9_PhaseWrap ==
    LastIsStart =>
        LET s == events[Len(events)].date
        IN  /\ getPhaseForDate(events, avgLength, s) = "Menstrual"
            /\ getPhaseForDate(events, avgLength, s + avgLength) = "Menstrual"
            /\ avgLength = 28 =>
                /\ getPhaseForDate(events, avgLength, s + 14) = "Ovulation"
                /\ getPhaseForDate(events, avgLength, s + 28) = "Menstrual"

\* The log ends with a Start and the learned average is 28.
C9_Witness == LastIsStart /\ avgLength = 28 /\ Len(events) >= 3

\* C10: when the log ends with an open Start at s, at most 7 of the dates
\* s .. s+avgLength-1 are Menstrual and s + 7 is not.
C10_MenstrualCap ==
    LastIsStart =>
        LET s == events[Len(events)].date
        IN  /\ getPhaseForDate(events, avgLength, s + 7) # "Menstrual"
            /\ Cardinality({k \in 0..(avgLength - 1) :
                    getPhaseForDate(events, avgLength, s + k) = "Menstrual"}) <= 7

\* C11: getPhaseForDate answers Follicular for every date that has no Start
\* on or before it, the empty log included.
C11_DefaultFollicular ==
    \A d \in QueryDates :
        ~HasStartOnOrBefore(d) => getPhaseForDate(events, avgLength, d) = "Follicular"

\* The log holds events, all of them dated after day 0, and a date before
\* the first of them is queried.
C11_Witness ==
    /\ Len(events) >= 2
    /\ events[1].date > 0
    /\ ~HasStartOnOrBefore(events[1].date - 1)
    /\ getPhaseForDate(events, avgLength, events[1].date - 1) = "Follicular"

\* The samples of the cycle-length average: for each Start that has a later
\* Start, the day difference to the next Start after it.
SampleIndices(ev) ==
    {i \in 1..Len(ev) :
        ev[i].type = "start" /\ \E j \in (i + 1)..Len(ev) : ev[j].type = "start"}

SampleDelta(ev, i) ==
    LET J == {j \in (i + 1)..Len(ev) : ev[j].type = "start"}
    IN  ev[CHOOSE j \in J : \A k \in J : j <= k].date - ev[i].date

\* r is the arithmetic mean of the samples I of ev, rounded to the nearest
\* integer (a half rounds up): r - 1/2 <= mean < r + 1/2.
IsRoundedMean(r, ev, I) ==
    LET n == Cardinality(I)
        total == SumOver([i \in I |-> SampleDelta(ev, i)], I)
    IN  2 * n * r <= 2 * total + n /\ 2 * total + n < 2 * n * (r + 1)

\* The log of the example: Starts 28, 29, 5 and 31 days apart, with the Ends
\* that logPeriodStart synthesizes when they are logged in date order.
ExampleLog ==
    <<Start(0), End(5), Start(28), End(33), Start(57), Start(62), End(67), Start(93)>>

\* C12: on a log of at least 3 events with an accepted sample (15 < delta < 50)
\* avgLength is the rounded arithmetic mean of the accepted samples; the
\* samples 28, 29, 5, 31 give 29.
C12_RoundedMean ==
    /\ Len(events) >= 3 =>
        LET acc == {i \in SampleIndices(events) :
                        15 < SampleDelta(events, i) /\ SampleDelta(events, i) < 50}
        IN  acc # {} => IsRoundedMean(avgLength, events, acc)
    /\ recalculateCycleStats(ExampleLog, DefaultAvgLength) = 29

\* Two accepted samples whose mean is not an integer have been averaged.
C12_Witness ==
    /\ Len(events) >= 3
    /\ LET acc == {i \in SampleIndices(events) :
                        15 < SampleDelta(events, i) /\ SampleDelta(events, i) < 50}
       IN  /\ Cardinality(acc) = 2
           /\ SumOver([i \in acc |-> SampleDelta(events, i)], acc) % 2 = 1
    /\ emitted = 1

\* C13 (as stated): the average is taken over the samples in [15, 50), a
\* difference of exactly 15 days included.
C13_HalfOpenRange ==
    Len(events) >= 3 =>
        LET acc == {i \in SampleIndices(events) :
                        15 <= SampleDelta(events, i) /\ SampleDelta(events, i) < 50}
        IN  acc # {} => IsRoundedMean(avgLength, events, acc)

\* C13 (amended): every call leaves avgLength as it was when the log has
\* fewer than 3 events or no sample in 16..49, and otherwise sets it to the
\* rounded mean of the samples in 16..49: samples of exactly 15 and of exactly
\* 50 days are discarded.
C13_OpenRange ==
    [][LET kept == {i \in SampleIndices(events') :
                        SampleDelta(events', i) \in 16..49}
       IN  IF Len(events') < 3 \/ kept = {}
           THEN avgLength' = avgLength
           ELSE IsRoundedMean(avgLength', events', kept)]_vars

\* The log holds a sample of exactly 15 days next to a sample inside the
\* range, and the average is the sample inside the range.
C13_Witness ==
    /\ Len(events) >= 3
    /\ \E i \in SampleIndices(events) : SampleDelta(events, i) = 15
    /\ \E i \in SampleIndices(events) :
        /\ SampleDelta(events, i) \in 16..49
        /\ avgLength = SampleDelta(events, i)
    /\ emitted = 1

\* C14: avgLength is a function of the event log: two runs from the factory
\* defaults that end with the same event log end with the same avgLength.
C14_LogDeterminesAvg ==
    events = twin.events => avgLength = twin.avgLength

\* The weight the estimate is computed for: today's reading, else the profile's.
WeightToday ==
    IF runtime.today \in DOMAIN logs.weight
    THEN logs.weight[runtime.today] ELSE profile.weight

\* C15: for weight 65 kg, body fat 22 % and activity level moderate the TDEE
\* is 2420 when today's phase is Luteal and 2270 in every other phase.
C15_TDEE ==
    (WeightToday = 650 /\ profile.bodyFat = 22 /\ profile.activityLevel = "moderate")
        => calculateKatchMcArdle(events, avgLength, profile, logs, runtime.today)
            = IF getPhaseForDate(events, avgLength, runtime.today) = "Luteal"
              THEN 2420 ELSE 2270

\* A period has been logged that puts today into the Luteal phase, and the
\* estimate for 65 kg, 22 % and moderate carries the surcharge.
C15_Witness ==
    /\ lastOp.op = "logPeriodStart"
    /\ WeightToday = 650 /\ profile.bodyFat = 22 /\ profile.activityLevel = "moderate"
    /\ getPhaseForDate(events, avgLength, runtime.today) = "Luteal"
    /\ calculateKatchMcArdle(events, avgLength, profile, logs, runtime.today) = 2420

\* A value handed to setWeight that is not a number, is zero or is below 20 kg.
invalidWeight(v) ==
    \/ ~v.whole
    \/ v.prefix[1] = 0
    \/ v.prefix[1] < 200

\* C16: setWeight with a value that is non-numeric, zero or below 20 kg
\* changes nothing: logs.weight, profile.weight, the cached TDEE and the
\* persisted record stay as they were, no warning is raised and no
\* notification is emitted.
C16_InvalidWeightIsNoOp ==
    [][(lastOp'.op = "setWeight" /\ invalidWeight(lastOp'.arg))
        => /\ logs'.weight = logs.weight
           /\ profile'.weight = profile.weight
           /\ runtime'.tdee = runtime.tdee
           /\ persisted' = persisted
           /\ alerted' = FALSE
           /\ emitted' = 0]_vars

\* The value held under key k of the map m, 0 when the map has no such key.
numberAt(m, k) == IF k \in DOMAIN m THEN m[k] ELSE 0

\* C17: when the storage write of logPeriodStart, logPeriodEnd, setWeight,
\* logFood, logWorkout or addWater fails, the effect of the call stays in the
\* in-memory state, the persisted record is left as it was, a warning is
\* raised and the store keeps running.
C17_FailedWriteKeepsEffect ==
    [][alerted' =>
        LET d == lastOp'.date
        IN  /\ persisted' = persisted
            /\ pc' = "ready"
            /\ lastOp'.op \in {"logPeriodStart", "logPeriodEnd", "setWeight",
                                "logFood", "logWorkout", "addWater"}
            /\ lastOp'.op = "logPeriodStart" =>
                  Count(events, Start(d)) = 0 /\ Count(events', Start(d)) = 1
            /\ lastOp'.op = "logPeriodEnd" =>
                  Count(events, End(d)) = 0 /\ Count(events', End(d)) = 1
            /\ lastOp'.op = "setWeight" =>
                  /\ logs'.weight[d] = lastOp'.arg.prefix[1]
                  /\ d = runtime.today => profile'.weight = lastOp'.arg.prefix[1]
                  /\ runtime'.tdee = calculateKatchMcArdle(events', avgLength',
                                            profile', logs', runtime'.today)
            /\ lastOp'.op = "logFood" =>
                  LET old == listAt(logs.nutrition, d)
                      new == listAt(logs'.nutrition, d)
                  IN  /\ Len(new) = Len(old) + 1
                      /\ SubSeq(new, 1, Len(old)) = old
                      /\ new[Len(new)].name = lastOp'.arg.name
                      /\ inLibrary(library', lastOp'.arg.name)
            /\ lastOp'.op = "logWorkout" =>
                  LET old == listAt(logs.workouts, d)
                      new == listAt(logs'.workouts, d)
                  IN  /\ Len(new) = Len(old) + 1
                      /\ SubSeq(new, 1, Len(old)) = old
                      /\ new[Len(new)].type = lastOp'.arg.type
            /\ lastOp'.op = "addWater" =>
                  logs'.water[d] = numberAt(logs.water, d) + lastOp'.arg]_vars

\* A glass of water was added while the write failed: the glass is in memory,
\* the persisted record still holds the state before it.
C17_Witness ==
    /\ alerted
    /\ lastOp.op = "addWater"
    /\ numberAt(logs.water, runtime.today) = Glass
    /\ persisted # <<>>
    /\ numberAt(persisted[1].logs.water, runtime.today) = 0

\* JSON writes a number as it is and NaN as null.
writtenAs(rec, mem) == IF mem.t = "NaN" THEN rec.t = "null" ELSE rec = mem

\* The record rec holds every part of the in-memory state.
holdsWholeState(rec, ev, avg, prof, lg, lib) ==
    /\ rec.events = ev
    /\ rec.avgLength = avg
    /\ rec.profile = prof
    /\ rec.library = lib
    /\ rec.logs.weight = lg.weight
    /\ rec.logs.water = lg.water
    /\ rec.logs.workouts = lg.workouts
    /\ DOMAIN rec.logs.nutrition = DOMAIN lg.nutrition
    /\ \A d \in DOMAIN lg.nutrition :
        /\ Len(rec.logs.nutrition[d]) = Len(lg.nutrition[d])
        /\ \A i \in 1..Len(lg.nutrition[d]) :
            LET r == rec.logs.nutrition[d][i]
                m == lg.nutrition[d][i]
            IN  /\ r.id = m.id /\ r.name = m.name
                /\ writtenAs(r.cals, m.cals) /\ writtenAs(r.p, m.p)
                /\ writtenAs(r.c, m.c) /\ writtenAs(r.f, m.f)
                /\ writtenAs(r.fiber, m.fiber)

\* C18: after a call whose storage write succeeds the persisted record is the
\* serialization of the whole in-memory state as the call leaves it, the
\* effects of earlier calls whose writes failed included.
C18_PersistedIsWholeState ==
    [][(~alerted' /\ emitted' >= 1 /\ lastOp'.op # "boot")
        => /\ Len(persisted') = 1
           /\ holdsWholeState(persisted'[1], events', avgLength', profile',
                               logs', library')]_vars

\* A successful addWater has written a record that also holds a period
\* event, a food entry and a library item of earlier calls.
C18_Witness ==
    /\ ~alerted /\ emitted = 1
    /\ lastOp.op = "addWater"
    /\ events # <<>> /\ library # <<>> /\ DOMAIN logs.nutrition # {}
    /\ Len(persisted) = 1
    /\ holdsWholeState(persisted[1], events, avgLength, profile, logs, library)

\* C19: save followed by loadState gives back the in-memory state: the same
\* profile, event log, avgLength, daily maps and library.
C19_RoundTrip ==
    pc = "ready" =>
        loadState(<<SerializedState(events, avgLength, profile, logs, library)>>)
            = [events |-> events, avgLength |-> avgLength, profile |-> profile,
               logs |-> logs, library |-> library]

\* C20: a page load that finds an unparsable record ends with the store
\* running on the factory defaults: empty event log, avgLength 29, empty
\* daily maps and library.
C20_CorruptBootsDefaults ==
    [][(pc = "boot" /\ persisted = <<CorruptRecord>>)
        => /\ pc' = "ready"
           /\ events' = <<>>
           /\ avgLength' = 29
           /\ logs'.nutrition = <<>> /\ logs'.workouts = <<>>
           /\ logs'.weight = <<>> /\ logs'.water = <<>>
           /\ library' = <<>>
           /\ profile'.weight = 650]_vars

\* The store has just booted on an unparsable record.
C20_Witness ==
    /\ lastOp.op = "boot"
    /\ persisted = <<CorruptRecord>>
    /\ pc = "ready"
    /\ events = <<>> /\ avgLength = 29 /\ library = <<>>

\* C21: a page load on a parseable record that lacks a field other than
\* profile completes: the constructor finishes with the missing field filled
\* and the first notification is dispatched.
C21_MissingFieldsTolerated ==
    [][/\ pc = "boot" =>
            /\ pc' = "ready"
            /\ "water" \in DOMAIN logs'
       /\ lastOp'.op = "systemReady" =>
            pc' = "online" /\ emitted' = 1]_vars

MutatingOps ==
    {"logPeriodStart", "logPeriodEnd", "setWeight", "logFood", "logWorkout", "addWater"}

\* C22: a mutating call that changes the state and whose write succeeds
\* dispatches exactly one notification.
C22_OneNotification ==
    [][(/\ lastOp'.op \in MutatingOps
        /\ ~alerted'
        /\ <<events', profile', logs', library'>> # <<events, profile, logs, library>>)
        => emitted' = 1 /\ Len(sent') = 1]_vars

\* C23: every notification carries, as calculated.tdee, the estimate computed
\* from the state at the moment it is dispatched, which is the state the
\* call leaves.
C23_PayloadIsCurrent ==
    [][\A i \in 1..Len(sent') :
          sent'[i].tdee = calculateKatchMcArdle(events', avgLength', profile',
                                                logs', runtime'.today)]_vars

\* The number held by a numeric field of a nutrition entry, 0 when it holds none.
numberIn(x) == IF x.t = "num" THEN x.v ELSE 0

\* Sum of the field of the nutrition entries of date d.
nutritionTotal(d, field) ==
    LET n == listAt(logs.nutrition, d)
    IN  SumOver([i \in 1..Len(n) |-> numberIn(n[i][field])], 1..Len(n))

\* Sum of the burn of the workouts of date d.
burnTotal(d) ==
    LET w == listAt(logs.workouts, d)
    IN  SumOver([i \in 1..Len(w) |-> w[i].burn.prefix[1]], 1..Len(w))

\* C24: getDailyStats(date) returns, for calories, protein, carbs, fat and
\* fiber, the sum over the nutrition entries of that date, and the sum of the
\* burn of that date's workouts; every total is 0 for a date without entries;
\* and the call changes no state.
C24_DailyStatsIsSum ==
    [][lastOp'.op = "getDailyStats" =>
        LET d == lastOp'.date
        IN  /\ \A field \in {"cals", "p", "c", "f", "fiber"} :
                  returned'.macros[field] = nutritionTotal(d, field)
            /\ returned'.burn = Num(burnTotal(d))
            /\ (d \notin DOMAIN logs.nutrition /\ d \notin DOMAIN logs.workouts) =>
                  /\ \A field \in {"cals", "p", "c", "f", "fiber"} :
                        returned'.macros[field] = 0
                  /\ returned'.burn = Num(0)
            /\ <<events, avgLength, profile, logs, library, persisted, runtime>>'
                  = <<events, avgLength, profile, logs, library, persisted, runtime>>]_vars

\* The totals of a date with two workouts and a food entry have been returned.
C24_Witness ==
    /\ lastOp.op = "getDailyStats"
    /\ Len(listAt(logs.workouts, lastOp.date)) = 2
    /\ Len(listAt(logs.nutrition, lastOp.date)) = 1
    /\ returned.burn = Num(240)
    /\ returned.macros.cals > 0

\* Two names of the model that are equal ignoring case.
sameIgnoringCase(a, b) == a = b \/ {a, b} = {"Chai", "chai"}

\* C25: logFood inserts the food into the library if and only if no library
\* entry has its name ignoring case, and leaves the library as it is
\* otherwise; no two library entries share a name ignoring case.
C25_LibraryFirstWriteWins ==
    [][lastOp'.op = "logFood" =>
        LET food == lastOp'.arg
            known == \E i \in 1..Len(library) :
                        sameIgnoringCase(library[i].name, food.name)
        IN  /\ known => library' = library
            /\ ~known =>
                  /\ Len(library') = Len(library) + 1
                  /\ \E i \in 1..Len(library') : library'[i] = food
                  /\ \A i \in 1..Len(library) :
                        \E j \in 1..Len(library') : library'[j] = library[i]
            /\ \A i, j \in 1..Len(library') :
                  i # j => ~sameIgnoringCase(library'[i].name, library'[j].name)]_vars

\* 'chai' has been logged while the library held 'Chai' next to 'Dal': the
\* library kept the first-written item.
C25_Witness ==
    /\ lastOp.op = "logFood"
    /\ lastOp.arg.name = "chai"
    /\ Len(library) = 2
    /\ \E i \in 1..Len(library) : library[i].name = "Chai"
    /\ \E i \in 1..Len(library) : library[i].name = "Dal"

\* C26: a call that leaves fewer than 3 events in the log leaves avgLength
\* as it was, also when the log holds two Starts whose distance is accepted.
C26_FewEventsKeepAvg ==
    [][Len(events') < 3 => avgLength' = avgLength]_vars

\* The log holds two Starts 28 days apart and nothing else, and avgLength is
\* still the factory default.
C26_Witness ==
    /\ events = <<Start(0), Start(28)>>
    /\ lastOp.op = "logPeriodStart"
    /\ avgLength = 29

\* Activity multipliers in fortieths: 1.2, 1.375, 1.55, 1.725, 1.9.
MultiplierFortieths ==
    [sedentary |-> 48, light |-> 55, moderate |-> 62, active |-> 69, athlete |-> 76]

\* floor((370 + 21.6 * lbm) * multiplier) + surcharge for the lean body mass
\* lbm = weight * (1 - bodyFat / 100), weight in tenths of a kilogram.
EstimateFor(weight, bodyFat, level, phase) ==
    ((462500 + 27 * weight * (100 - bodyFat)) * MultiplierFortieths[level]) \div 50000
        + (IF phase = "Luteal" THEN 150 ELSE 0)

\* C27: for every body-fat percentage in 0..100 the estimate uses the lean
\* body mass weight * (1 - bodyFat / 100) with the profile's own value, so
\* bodyFat = 0 gives lbm = weight.  Read on the estimate that the boot and
\* an accepted setWeight compute.
C27_OwnBodyFat ==
    (pc = "ready" /\ (lastOp.op = "boot" \/ (lastOp.op = "setWeight" /\ emitted > 0)))
        => runtime.tdee = EstimateFor(WeightToday, profile.bodyFat, profile.activityLevel,
                                      getPhaseForDate(events, avgLength, runtime.today))

\* A number of at least 20 kg handed to setWeight.
validWeight(v) == v.whole /\ v.prefix[1] >= 200

\* C28: a valid setWeight(date, w) sets logs.weight[date] to w, sets
\* profile.weight to w if date is today and leaves it alone otherwise, and
\* leaves the other weight readings, the rest of the profile, the event log,
\* the other daily maps and the library unchanged.
C28_SetWeightFrame ==
    [][(lastOp'.op = "setWeight" /\ validWeight(lastOp'.arg)) =>
        LET d == lastOp'.date
            w == lastOp'.arg.prefix[1]
        IN  /\ DOMAIN logs'.weight = DOMAIN logs.weight \cup {d}
            /\ logs'.weight[d] = w
            /\ \A x \in DOMAIN logs.weight \ {d} : logs'.weight[x] = logs.weight[x]
            /\ profile' = [profile EXCEPT !.weight =
                                IF d = runtime.today THEN w ELSE profile.weight]
            /\ events' = events /\ avgLength' = avgLength
            /\ logs'.nutrition = logs.nutrition
            /\ logs'.workouts = logs.workouts
            /\ logs'.water = logs.water
            /\ library' = library]_vars

\* A weight was logged for a past date after another one for today: both
\* readings are kept and the profile holds today's.
C28_Witness ==
    /\ lastOp.op = "setWeight" /\ lastOp.date = 0 /\ validWeight(lastOp.arg)
    /\ DOMAIN logs.weight = {0, Today}
    /\ logs.weight[0] = lastOp.arg.prefix[1]
    /\ logs.weight[Today] # logs.weight[0]
    /\ profile.weight = logs.weight[Today]
    /\ events # <<>> /\ DOMAIN logs.water # {}

\* The entries that the map m holds for date d, none when it has no such date.
entriesOf(m, d) == IF d \in DOMAIN m THEN m[d] ELSE <<>>

\* The map m2 is the map m1 with one entry appended to the list of date d.
appendsOne(m1, m2, d) ==
    /\ DOMAIN m2 = DOMAIN m1 \cup {d}
    /\ Len(m2[d]) = Len(entriesOf(m1, d)) + 1
    /\ SubSeq(m2[d], 1, Len(m2[d]) - 1) = entriesOf(m1, d)
    /\ \A x \in DOMAIN m1 \ {d} : m2[x] = m1[x]

\* C29: logFood and logWorkout append one entry at the end of the date's
\* list, keep the earlier entries of that date in their order and leave the
\* lists of the other dates alone; addWater(a) replaces today's water value
\* by its previous value (0 if absent) plus a and changes no other date.
C29_AppendAndIncrement ==
    [][LET d == lastOp'.date
       IN  /\ lastOp'.op = "logFood" =>
                /\ appendsOne(logs.nutrition, logs'.nutrition, d)
                /\ logs'.nutrition[d][Len(logs'.nutrition[d])].name = lastOp'.arg.name
                /\ logs'.workouts = logs.workouts /\ logs'.water = logs.water
           /\ lastOp'.op = "logWorkout" =>
                /\ appendsOne(logs.workouts, logs'.workouts, d)
                /\ logs'.workouts[d][Len(logs'.workouts[d])].type = lastOp'.arg.type
                /\ logs'.workouts[d][Len(logs'.workouts[d])].burn = lastOp'.arg.burn
                /\ logs'.nutrition = logs.nutrition /\ logs'.water = logs.water
           /\ lastOp'.op = "addWater" =>
                /\ d = runtime.today
                /\ DOMAIN logs'.water = DOMAIN logs.water \cup {d}
                /\ logs'.water[d] = (IF d \in DOMAIN logs.water THEN logs.water[d] ELSE 0)
                                        + lastOp'.arg
                /\ \A x \in DOMAIN logs.water \ {d} : logs'.water[x] = logs.water[x]
                /\ logs'.nutrition = logs.nutrition
                /\ logs'.workouts = logs.workouts]_vars

\* A second food entry was appended to a date's list while the other date
\* holds a workout and today's water holds two glasses.
C29_Witness ==
    /\ lastOp.op = "logFood"
    /\ runtime.today \in DOMAIN logs.water /\ logs.water[runtime.today] = 2 * Glass
    /\ Len(entriesOf(logs.nutrition, lastOp.date)) = 2
    /\ logs.nutrition[lastOp.date][1].name # logs.nutrition[lastOp.date][2].name
    /\ \E x \in DOMAIN logs.workouts : x # lastOp.date

\* The weighted sum and the sum of the weights of a history, the i-th oldest
\* entry weighing i.
WeightedTotal(h) == SumOver([i \in 1..Len(h) |-> i * h[i]], 1..Len(h))
WeightTotal(h) == (Len(h) * (Len(h) + 1)) \div 2

\* r is the weighted mean of h rounded to the nearest integer, a half up.
IsRoundedWeightedMean(r, h) ==
    /\ 2 * WeightTotal(h) * r <= 2 * WeightedTotal(h) + WeightTotal(h)
    /\ 2 * WeightedTotal(h) + WeightTotal(h) < 2 * WeightTotal(h) * (r + 1)

\* C30: predictCycleLength returns an integer in 21..35: 28 for a history of
\* fewer than 3 entries, and otherwise the recency-weighted mean of the
\* history, rounded and clamped to 21..35.
C30_PredictedLength ==
    lastOp.op = "predictCycleLength" =>
        LET h == tracker.cycleHistory
            r == returned.v
        IN  /\ r \in 21..35
            /\ Len(h) < 3 => r = 28
            /\ Len(h) >= 3 =>
                  \E m \in 0..60 :
                      /\ IsRoundedWeightedMean(m, h)
                      /\ r = (IF m < 21 THEN 21 ELSE IF m > 35 THEN 35 ELSE m)

\* The prediction for the history 15, 15, 15, whose mean lies below the
\* range, is 21.
C30_Witness ==
    /\ lastOp.op = "predictCycleLength"
    /\ tracker.cycleHistory = <<15, 15, 15>>
    /\ returned.v = 21

\* The cycle day getPhaseForDate computes for a date with a Start on or
\* before it.
CycleDayAt(d) ==
    cycleDayOf((d - RecentStartDate(d)) + 1,
               IF avgLength = 0 THEN DefaultAvgLength ELSE avgLength)

\* C31: from the factory defaults, after any sequence of logPeriodStart and
\* logPeriodEnd calls, avgLength is an integer in 16..49, and the cycle day
\* that getPhaseForDate computes is in 1..avgLength.
C31_AvgLengthRange ==
    /\ avgLength \in 16..49
    /\ \A d \in QueryDates :
          HasStartOnOrBefore(d) => CycleDayAt(d) \in 1..avgLength

\* The learned average is the least the filter admits, and a queried date
\* lies beyond one whole cycle after the latest Start.
C31_Witness ==
    /\ avgLength = 16
    /\ Len(events) >= 3
    /\ \E d \in QueryDates :
          /\ HasStartOnOrBefore(d) /\ d - RecentStartDate(d) >= avgLength
          /\ CycleDayAt(d) = 1

\* The dates after the End that closes the Start at index i, before one
\* average cycle has passed since that Start and before any later event.
DatesAfterEnd(i) ==
    {d \in QueryDates :
        /\ events[i + 1].date < d
        /\ d < events[i].date + avgLength
        /\ (i + 1 = Len(events) \/ d < events[i + 2].date)}

ClosedStarts ==
    {i \in 1..(Len(events) - 1) :
        events[i].type = "start" /\ events[i + 1].type = "end"}

\* C32: for a Start at s closed by an End at e, no date d with
\* e < d < s + avgLength and no later event on or before d is Menstrual.
C32_EndEndsMenstrual ==
    \A i \in ClosedStarts : \A d \in DatesAfterEnd(i) :
        getPhaseForDate(events, avgLength, d) # "Menstrual"

\* The ids of the entries of a nutrition list are pairwise distinct.
DistinctIds(list) ==
    \A i, j \in 1..Len(list) : i # j => list[i].id # list[j].id

\* C33: the entry ids within one date's nutrition list are pairwise distinct
\* after every call, and removeFood(date, id) with the id of an entry of that
\* date removes exactly one entry.
C33_DistinctIds ==
    [][/\ \A d \in DOMAIN logs'.nutrition : DistinctIds(logs'.nutrition[d])
       /\ (/\ lastOp'.op = "removeFood"
           /\ lastOp'.date \in DOMAIN logs.nutrition
           /\ \E i \in 1..Len(logs.nutrition[lastOp'.date]) :
                 logs.nutrition[lastOp'.date][i].id = lastOp'.arg)
          => Len(logs'.nutrition[lastOp'.date])
               = Len(logs.nutrition[lastOp'.date]) - 1]_vars

\* logs.water[d] || 0
WaterOn(lg, d) == IF d \in DOMAIN lg.water THEN lg.water[d] ELSE 0

\* C34: addWater(amount) adds amount to the water entry of the calendar date
\* that is current when it is called, also when that date is no longer the
\* date on which the store instance was constructed.
C34_WaterOnCurrentDate ==
    [][lastOp'.op = "addWater"
        => WaterOn(logs', currentDate(now))
             = WaterOn(logs, currentDate(now)) + lastOp'.arg]_vars

\* C35: the cycleDay that calculateCycleDay(date) returns is in
\* 1..cycleLength for every date, the dates earlier than lastPeriodStart
\* included.
C35_CycleDayInRange ==
    returned.kind = "cycleDay" => returned.cycleDay \in 1..returned.cycleLength

\* C36: when resetDailySteps has reset the count today, a reload of the
\* counter loads the steps counted since that reset, and so 0 when no step was
\* counted since.
C36_ReloadAfterReset ==
    [][(/\ lastOp'.op = "newStepCounter"
        /\ counter.built
        /\ counter.lastStepReset = <<counter.day>>)
        => counter'.steps = counter.counted]_vars

\* C37: while the counter is paused, from pause() on the page becoming hidden
\* to the next resume(), steps does not change.
C37_PausedStepsFrozen ==
    [][(counter.built /\ counter.hidden /\ counter'.hidden)
        => counter'.steps = counter.steps]_vars
====
